---------------------------- MODULE Spec2Model ----------------------------
(***************************************************************************)
(* A model of src/pipeline.py: the DatasetMapper (a read-through adapter   *)
(* from a table of (path, label) rows to (image, label) pairs) and the     *)
(* Pipeline (its constructor and its training loop).                       *)
(*                                                                         *)
(* The three entry points of the file are modelled as three calls, one per *)
(* behaviour: `call` says which one the behaviour executes.                *)
(*   "DatasetMapper"      DatasetMapper(...) followed by len() and [idx]   *)
(*   "Pipeline.__init__"  Pipeline(name, model, batch_size, ...)           *)
(*   "Pipeline.train"     train(num_epochs=..., ...) on a pipeline whose   *)
(*                        attributes are the ones lines 109-140 assign     *)
(* The collaborators (preprocessor, teacher, network, optimizer, scheduler,*)
(* loss and score functions, dashboard writer, torch.save) do not fail and *)
(* are modelled by the calls the file makes on them.                       *)
(***************************************************************************)
EXTENDS Integers, Sequences, FiniteSets, TLC

\* ------------------------------------------------------------- bounds
MaxRows == 2
MaxBatchSize == 2
MaxEpochs == 3
MaxInterval == 2

\* lr = 0.001 (line 150), in thousandths
DefaultLr == 1

VARIABLES
    call,             \* the entry point this behaviour executes
    pc,               \* position in the executing function
    error,            \* the exception that ended the call, "" when none
    \* ---- DatasetMapper (the object under lookup)
    mapper,           \* <<>> before construction, <<fields>> afterwards
    item,             \* <<>> , or <<result of the last __getitem__>>
    size,             \* <<>> , or <<result of the last __len__>>
    \* ---- Pipeline attributes
    self,             \* the Pipeline's attributes, by name
    args,             \* the arguments of the call (to Pipeline or to train)
    \* ---- locals of Pipeline.train
    lr, optimizer, lr_scheduler,
    training_log, validation_log,
    epoch, step, ys, y_preds,
    batches,          \* what the iterator of the running for-loop still yields
    x, y, y_pred,     \* the batch being processed
    loss,             \* <<>> while the name is unbound, else <<value>>
    \* ---- collaborators' state
    model,            \* the network: mode, parameter version, gradients
    train_writer, valid_writer,
    checkpoints,      \* the bundles torch.save has written, in order
    trace             \* the calls made on the collaborators, in order

mapperVars == <<mapper, item, size>>
trainLocals == <<lr, optimizer, lr_scheduler, training_log, validation_log,
                 epoch, step, ys, y_preds, batches, x, y, y_pred, loss>>
collabVars == <<model, train_writer, valid_writer, checkpoints, trace>>
vars == <<call, pc, error, mapper, item, size, self, args,
          lr, optimizer, lr_scheduler, training_log, validation_log,
          epoch, step, ys, y_preds, batches, x, y, y_pred, loss,
          model, train_writer, valid_writer, checkpoints, trace>>

\* ------------------------------------------------------------- helpers
Last(s) == s[Len(s)]

\* f with key k bound to v (a Python dict or attribute assignment)
Bind(f, k, v) == [n \in DOMAIN f \cup {k} |-> IF n = k THEN v ELSE f[n]]

Restrict(f, K) == [n \in K |-> f[n]]

Ceil(a, b) == (a + b - 1) \div b

\* all sequences over S of length 0..n
SeqsUpTo(S, n) == UNION { [1..k -> S] : k \in 0..n }

\* all orders of 1..n (the orders a shuffling sampler can draw)
Perms(n) == { p \in [1..n -> 1..n] : \A i, j \in 1..n : p[i] = p[j] => i = j }

\* ------------------------------------------------------------- paths
\* A path is a sequence of characters.
Sep == "/"

Roots == { <<>>, <<"d">>, <<"d", "/">> }

FileNames == { <<"a">>, <<"/", "b">> }

Labels == { 0, 1 }

\* os.path.join(a, b) on POSIX, as line 90 uses it
Join(a, b) ==
    IF Len(b) > 0 /\ b[1] = Sep THEN b
    ELSE IF Len(a) = 0 \/ Last(a) = Sep THEN a \o b
    ELSE a \o <<Sep>> \o b

\* ------------------------------------------------------------- collaborators
\* preprocessor.get(path): the tensor of the image stored at path
PreprocessorGet(path) == [pixels_of |-> path]

\* teacher_func(image): a label computed from the image alone
TeacherLabel(image) == 10 + Len(image.pixels_of)

\* pd.read_csv(image_data_file): the rows of the file, (path, label) each
Rows == [path : FileNames, label : Labels]

Tables == SeqsUpTo(Rows, MaxRows)

\* the table of n rows used where only the number of rows matters
PlainTable(n) == [i \in 1..n |-> [path |-> <<"a">>, label |-> i % 2]]

\* ------------------------------------------------------------- DatasetMapper
\* DatasetMapper.__init__(self, root_dir, image_data_file, preprocessor,
\* teacher_func: None): `: None` is an annotation, not a default, so all four
\* arguments are required.  `given` maps the supplied parameters to their
\* values; the result is <<fields>> or <<>> when the call raises TypeError.
MapperParams == {"root_dir", "image_data_file", "preprocessor", "teacher_func"}

DatasetMapperInit(given) ==
    IF MapperParams \subseteq DOMAIN given
    THEN << [root_dir        |-> given.root_dir,
             image_data_file |-> given.image_data_file,
             preprocessor    |-> given.preprocessor,
             teacher_func    |-> given.teacher_func] >>
    ELSE <<>>

\* DatasetMapper.__len__
DatasetLen(m) == Len(m.image_data_file)

\* image_data_file.iloc[idx, ...]: the row at position idx, negative positions
\* counting from the end; <<>> when idx is out of bounds (IndexError)
Iloc(table, idx) ==
    IF idx >= 0 /\ idx < Len(table) THEN << table[idx + 1] >>
    ELSE IF idx < 0 /\ -idx <= Len(table) THEN << table[Len(table) + idx + 1] >>
    ELSE <<>>

\* idx.tolist() when idx is a tensor, idx itself otherwise (lines 86-87)
ToPythonInt(idx) == idx.value

\* __getitem__ reading the label from the table whatever the teacher
GetItemValueFromTable(m, row) ==
    LET img_name == Join(m.root_dir, row.path)
        image == PreprocessorGet(img_name)
    IN [image |-> image, label |-> row.label]

\* DatasetMapper.__getitem__ on a row that exists
GetItemValue(m, row) ==
    LET img_name == Join(m.root_dir, row.path)
        image == PreprocessorGet(img_name)
        img_label == IF m.teacher_func # "None"
                     THEN TeacherLabel(image)
                     ELSE row.label
    IN [image |-> image, label |-> img_label]

\* ------------------------------------------------------------- Pipeline object
\* DataLoader(dataset, batch_size=..., num_workers=0, shuffle=...)
DataLoader(dataset, batch_size, shuffle) ==
    [dataset |-> dataset, batch_size |-> batch_size, shuffle |-> shuffle]

\* The batches one pass over a loader yields when its sampler draws the rows
\* in `order`: consecutive groups of batch_size rows, the last one shorter.
Batches(order, batch_size) ==
    [b \in 1..Ceil(Len(order), batch_size) |->
        LET first == (b - 1) * batch_size
            n == IF Len(order) - first < batch_size
                 THEN Len(order) - first ELSE batch_size
        IN [j \in 1..n |-> order[first + j]]]

\* the orders in which a loader's sampler can draw the rows of its dataset
Orders(loader) ==
    LET n == DatasetLen(loader.dataset)
    IN IF loader.shuffle THEN Perms(n) ELSE { [i \in 1..n |-> i] }

\* Lines 109-124: the attributes assigned before the datasets are built.
AttrsBeforeDatasets(a, stamp, device) ==
    [name            |-> <<a.name, "_", stamp>>,
     model           |-> a.model,
     batch_size      |-> a.batch_size,
     root_dir        |-> a.root_dir,
     image_data_file |-> a.image_data_file,
     preprocessor    |-> a.preprocessor,
     args            |-> a.kwargs,
     device          |-> device]

\* Lines 131-140: the loaders and the writers, given the two datasets.
AttrsWithLoaders(s, train_set, test_set) ==
    Bind(Bind(Bind(Bind(s,
        "train_loader", DataLoader(train_set, s.batch_size, TRUE)),
        "test_loader", DataLoader(test_set, s.batch_size, FALSE)),
        "train_writer", <<"logs/fit/", s.name, "/train">>),
        "valid_writer", <<"logs/fit/", s.name, "/validation">>)

\* nn.Module after construction and .to(device): training mode is the default
NewModel == [training |-> TRUE, params |-> 0, grad |-> "none"]

\* ------------------------------------------------------------- inputs
PipelineArgs ==
    [name : {"run"}, model : {"Net"}, batch_size : 1..MaxBatchSize,
     root_dir : Roots, image_data_file : { PlainTable(n) : n \in 0..MaxRows },
     preprocessor : {"preprocessor"}, kwargs : {"model kwargs"}]

MapperArgs ==
    LET full == [root_dir : Roots, image_data_file : Tables,
                 preprocessor : {"preprocessor"}, teacher_func : {"None", "teacher"}]
    IN full \cup { Restrict(g, MapperParams \ {"teacher_func"}) : g \in full }

KwargKeys ==
    {"num_epochs", "lr", "optim", "lr_scheduler", "step_size_func", "loss_func",
     "loss_func_with_grad", "score_functions", "save_checkpoints"}

TrainKwargs ==
    LET full == [num_epochs : 0..MaxEpochs, lr : {5}, optim : {"SGD"},
                 lr_scheduler : {"StepLR"}, step_size_func : {"decay"},
                 loss_func : {"loss_func"},
                 loss_func_with_grad : {"loss_func_with_grad"},
                 score_functions : { <<"accuracy">> },
                 save_checkpoints : [epoch : 0..MaxInterval, path : {"model.pt"}]]
    IN { Restrict(k, K) : k \in full, K \in SUBSET KwargKeys }

\* A pipeline as lines 109-140 assign it, over a table of n rows.
TrainSelf(a) ==
    LET ds == [root_dir |-> a.root_dir, image_data_file |-> a.image_data_file,
               preprocessor |-> a.preprocessor, teacher_func |-> "None"]
    IN AttrsWithLoaders(AttrsBeforeDatasets(a, "stamp", "cpu"), ds, ds)

EmptyLog == [errors |-> <<>>, scores |-> <<>>]

NoAttrs == [n \in {} |-> 0]

\* ------------------------------------------------------------- Init
Idle ==
    /\ error = ""
    /\ mapper = <<>> /\ item = <<>> /\ size = <<>>
    /\ lr = 0 /\ optimizer = <<>> /\ lr_scheduler = <<>>
    /\ training_log = EmptyLog /\ validation_log = EmptyLog
    /\ epoch = 0 /\ step = 0 /\ ys = <<>> /\ y_preds = <<>>
    /\ batches = <<>> /\ x = <<>> /\ y = <<>> /\ y_pred = <<>> /\ loss = <<>>
    /\ train_writer = <<>> /\ valid_writer = <<>>
    /\ checkpoints = <<>> /\ trace = <<>>

InitMapper ==
    /\ call = "DatasetMapper" /\ pc = "new"
    /\ args \in MapperArgs
    /\ self = NoAttrs /\ model = NewModel
    /\ Idle

InitPipeline ==
    /\ call = "Pipeline.__init__" /\ pc = "attrs"
    /\ args \in PipelineArgs
    /\ self = NoAttrs /\ model = NewModel
    /\ Idle

InitTrain ==
    /\ call = "Pipeline.train" /\ pc = "assert_num_epochs"
    /\ args \in TrainKwargs
    /\ \E a \in PipelineArgs : a.root_dir = <<"d">> /\ self = TrainSelf(a)
    /\ model = NewModel
    /\ Idle

Init == InitMapper \/ InitPipeline \/ InitTrain

\* an exception leaves the executing function
Raise(e) == pc' = "raised" /\ error' = e

\* ------------------------------------------------------------- DatasetMapper calls
\* DatasetMapper(...), lines 41-64
MapperNew ==
    /\ call = "DatasetMapper" /\ pc = "new"
    /\ mapper' = DatasetMapperInit(args)
    /\ IF mapper' = <<>> THEN Raise("TypeError")
       ELSE pc' = "ready" /\ error' = error
    /\ UNCHANGED <<call, item, size, self, args, trainLocals, collabVars>>

\* len(mapper), lines 66-71
MapperLen ==
    /\ call = "DatasetMapper" /\ pc = "ready"
    /\ size' = << DatasetLen(mapper[1]) >>
    /\ UNCHANGED <<call, pc, error, mapper, item, self, args, trainLocals, collabVars>>

\* mapper[idx], lines 73-102; out is <<>> when iloc raises IndexError
GetItem(idx) ==
    LET i == ToPythonInt(idx)
        row == Iloc(mapper[1].image_data_file, i)
    IN  /\ call = "DatasetMapper" /\ pc = "ready"
        /\ item' = << [idx |-> i,
                       out |-> IF row = <<>> THEN <<>>
                               ELSE << GetItemValue(mapper[1], row[1]) >>] >>
        /\ UNCHANGED <<call, pc, error, mapper, size, self, args, trainLocals, collabVars>>

MapperGetItem ==
    \E tensor \in BOOLEAN :
    \E v \in -(MaxRows + 1)..MaxRows :
        /\ mapper # <<>>
        /\ v >= -(DatasetLen(mapper[1]) + 1) /\ v <= DatasetLen(mapper[1])
        /\ GetItem([tensor |-> tensor, value |-> v])

\* ------------------------------------------------------------- Pipeline.__init__
\* lines 109-124
PipelineInitAttrs ==
    /\ call = "Pipeline.__init__" /\ pc = "attrs"
    /\ \E cuda \in BOOLEAN :
         self' = AttrsBeforeDatasets(args, "stamp", IF cuda THEN "cuda" ELSE "cpu")
    /\ model' = NewModel
    /\ pc' = "datasets"
    /\ UNCHANGED <<call, error, mapperVars, args, trainLocals,
                   train_writer, valid_writer, checkpoints, trace>>

\* lines 127-140: DatasetMapper is called with three arguments
PipelineInitDatasets ==
    LET given == [root_dir |-> args.root_dir,
                  image_data_file |-> args.image_data_file,
                  preprocessor |-> self.preprocessor]
        train_set == DatasetMapperInit(given)
        test_set == DatasetMapperInit(given)
    IN  /\ call = "Pipeline.__init__" /\ pc = "datasets"
        /\ IF train_set = <<>> \/ test_set = <<>>
           THEN Raise("TypeError") /\ self' = self
           ELSE /\ self' = AttrsWithLoaders(self, train_set[1], test_set[1])
                /\ pc' = "constructed" /\ error' = error
        /\ UNCHANGED <<call, mapperVars, args, trainLocals, collabVars>>

\* ------------------------------------------------------------- Pipeline.train
InTrain(at) == call = "Pipeline.train" /\ pc = at

\* one call on a collaborator, with the epoch and the network's mode at the call
Event(op) == [op |-> op, epoch |-> epoch, training |-> model.training]

\* labels and predictions of one batch: a label per row, a prediction per row
\* that depends on the row and on the parameters the network holds
BatchLabels(rows) ==
    [i \in 1..Len(rows) |-> self.train_loader.dataset.image_data_file[rows[i]].label]

ModelForward(rows) ==
    [i \in 1..Len(rows) |-> [row |-> rows[i], params |-> model.params]]

\* score_func["func"](ys, y_preds) for every configured score function
Scores(names, labels, preds) ==
    [i \in 1..Len(names) |-> [name |-> names[i], ys |-> labels, y_preds |-> preds]]

\* log.append(record) on one of the two logs.  Both logs are dicts (lines
\* 184-185) and a dict has no append: the result is <<>>, an AttributeError.
DictAppend(log, record) == <<>>

\* train falling back to one epoch when num_epochs is missing
AssertNumEpochsDefaulted ==
    /\ InTrain("assert_num_epochs")
    /\ self' = Bind(self, "epochs",
                    IF "num_epochs" \in DOMAIN args THEN args.num_epochs ELSE 1)
    /\ pc' = "setup"
    /\ UNCHANGED <<call, error, mapperVars, args, trainLocals, collabVars>>

\* lines 143-144
AssertNumEpochs ==
    /\ InTrain("assert_num_epochs")
    /\ IF "num_epochs" \in DOMAIN args
       THEN /\ self' = Bind(self, "epochs", args.num_epochs)
            /\ pc' = "setup" /\ error' = error
       ELSE Raise("AssertionError") /\ self' = self
    /\ UNCHANGED <<call, mapperVars, args, trainLocals, collabVars>>

\* lines 146-165: learning rate, optimizer, scheduler
Setup ==
    /\ InTrain("setup")
    /\ lr' = IF "lr" \in DOMAIN args THEN args.lr ELSE DefaultLr
    /\ optimizer' = << [cls |-> IF "optim" \in DOMAIN args THEN args.optim ELSE "Adam",
                        lr |-> lr', steps |-> 0] >>
    /\ lr_scheduler' =
         << IF "lr_scheduler" \in DOMAIN args
            THEN [cls |-> args.lr_scheduler, lr_lambda |-> "", steps |-> 0]
            ELSE IF "step_size_func" \in DOMAIN args
            THEN [cls |-> "LambdaLR", lr_lambda |-> args.step_size_func, steps |-> 0]
            ELSE [cls |-> "LambdaLR", lr_lambda |-> "constant", steps |-> 0] >>
    /\ pc' = "assert_loss"
    /\ UNCHANGED <<call, error, mapperVars, self, args, training_log, validation_log,
                   epoch, step, ys, y_preds, batches, x, y, y_pred, loss, collabVars>>

\* lines 167-185
AssertLossFuncs ==
    /\ InTrain("assert_loss")
    /\ IF "loss_func" \in DOMAIN args /\ "loss_func_with_grad" \in DOMAIN args
       THEN /\ training_log' = EmptyLog /\ validation_log' = EmptyLog
            /\ pc' = "epoch" /\ error' = error
       ELSE Raise("AssertionError") /\ UNCHANGED <<training_log, validation_log>>
    /\ UNCHANGED <<call, mapperVars, self, args, lr, optimizer, lr_scheduler,
                   epoch, step, ys, y_preds, batches, x, y, y_pred, loss, collabVars>>

\* lines 189-200: the head of one epoch, up to the iterator over train_loader
EpochBegin ==
    /\ InTrain("epoch") /\ epoch < self.epochs
    /\ ys' = <<>> /\ y_preds' = <<>>
    /\ model' = [model EXCEPT !.training = TRUE]
    /\ trace' = Append(trace, [Event("model.train") EXCEPT !.training = TRUE])
    /\ step' = 0
    /\ \E order \in Orders(self.train_loader) :
         batches' = Batches(order, self.train_loader.batch_size)
    /\ pc' = "train_batch"
    /\ UNCHANGED <<call, error, mapperVars, self, args, lr, optimizer, lr_scheduler,
                   training_log, validation_log, epoch, x, y, y_pred, loss,
                   train_writer, valid_writer, checkpoints>>

\* line 296, once range(self.epochs) is exhausted
Return ==
    /\ InTrain("epoch") /\ epoch >= self.epochs
    /\ pc' = "returned"
    /\ UNCHANGED <<call, error, mapperVars, self, args, trainLocals, collabVars>>

\* lines 200-202: the next training batch, or the end of the training loop
TrainBatchNext ==
    /\ InTrain("train_batch")
    /\ IF batches # <<>>
       THEN /\ x' = Head(batches) /\ y' = BatchLabels(Head(batches))
            /\ batches' = Tail(batches)
            /\ trace' = Append(trace, Event("train_loader.next"))
            /\ pc' = "forward"
       ELSE /\ pc' = "scheduler"
            /\ UNCHANGED <<x, y, batches, trace>>
    /\ UNCHANGED <<call, error, mapperVars, self, args, lr, optimizer, lr_scheduler,
                   training_log, validation_log, epoch, step, ys, y_preds, y_pred,
                   loss, model, train_writer, valid_writer, checkpoints>>

\* the forward pass going on to the loss without zeroing the gradients
ForwardSkippingZeroGrad ==
    /\ InTrain("forward")
    /\ y_pred' = ModelForward(x)
    /\ trace' = Append(trace, Event("model.forward"))
    /\ pc' = "loss"
    /\ UNCHANGED <<call, error, mapperVars, self, args, lr, optimizer, lr_scheduler,
                   training_log, validation_log, epoch, step, ys, y_preds, batches,
                   x, y, loss, model, train_writer, valid_writer, checkpoints>>

\* line 205
Forward ==
    /\ InTrain("forward")
    /\ y_pred' = ModelForward(x)
    /\ trace' = Append(trace, Event("model.forward"))
    /\ pc' = "zero_grad"
    /\ UNCHANGED <<call, error, mapperVars, self, args, lr, optimizer, lr_scheduler,
                   training_log, validation_log, epoch, step, ys, y_preds, batches,
                   x, y, loss, model, train_writer, valid_writer, checkpoints>>

\* line 208
ZeroGrad ==
    /\ InTrain("zero_grad")
    /\ model' = [model EXCEPT !.grad = "zero"]
    /\ trace' = Append(trace, Event("optimizer.zero_grad"))
    /\ pc' = "loss"
    /\ UNCHANGED <<call, error, mapperVars, self, args, trainLocals,
                   train_writer, valid_writer, checkpoints>>

\* line 211
LossWithGrad ==
    /\ InTrain("loss")
    /\ loss' = << [func |-> args.loss_func_with_grad, y_pred |-> y_pred, y |-> y] >>
    /\ trace' = Append(trace, Event("loss_func_with_grad"))
    /\ pc' = "backward"
    /\ UNCHANGED <<call, error, mapperVars, self, args, lr, optimizer, lr_scheduler,
                   training_log, validation_log, epoch, step, ys, y_preds, batches,
                   x, y, y_pred, model, train_writer, valid_writer, checkpoints>>

\* line 214
Backward ==
    /\ InTrain("backward")
    /\ model' = [model EXCEPT !.grad = "computed"]
    /\ trace' = Append(trace, Event("loss.backward"))
    /\ pc' = "optimizer_step"
    /\ UNCHANGED <<call, error, mapperVars, self, args, trainLocals,
                   train_writer, valid_writer, checkpoints>>

\* line 217: the optimizer updates the parameters in place
OptimizerStep ==
    /\ InTrain("optimizer_step")
    /\ optimizer' = << [optimizer[1] EXCEPT !.steps = @ + 1] >>
    /\ model' = [model EXCEPT !.params = @ + 1]
    /\ trace' = Append(trace, Event("optimizer.step"))
    /\ pc' = "log_step"
    /\ UNCHANGED <<call, error, mapperVars, self, args, lr, lr_scheduler,
                   training_log, validation_log, epoch, step, ys, y_preds, batches,
                   x, y, y_pred, loss, train_writer, valid_writer, checkpoints>>

\* the end of a training step advancing the scheduler as well
LogStepSteppingScheduler ==
    /\ InTrain("log_step")
    /\ training_log' = [training_log EXCEPT !.errors =
           Append(@, [epoch |-> epoch, step |-> step, loss |-> loss[1]])]
    /\ train_writer' = Append(train_writer, "loss")
    /\ ys' = ys \o y
    /\ y_preds' = y_preds \o y_pred
    /\ lr_scheduler' = << [lr_scheduler[1] EXCEPT !.steps = @ + 1] >>
    /\ trace' = Append(trace, Event("lr_scheduler.step"))
    /\ pc' = "train_batch"
    /\ UNCHANGED <<call, error, mapperVars, self, args, lr, optimizer,
                   validation_log, epoch, step, batches, x, y, y_pred, loss,
                   model, valid_writer, checkpoints>>

\* lines 219-230: the step's loss record, the dashboard, the accumulators.
\* `step` is assigned at line 199 and nowhere else.
LogStep ==
    /\ InTrain("log_step")
    /\ training_log' = [training_log EXCEPT !.errors =
           Append(@, [epoch |-> epoch, step |-> step, loss |-> loss[1]])]
    /\ train_writer' = Append(train_writer, "loss")
    /\ ys' = ys \o y
    /\ y_preds' = y_preds \o y_pred
    /\ pc' = "train_batch"
    /\ UNCHANGED <<call, error, mapperVars, self, args, lr, optimizer, lr_scheduler,
                   validation_log, epoch, step, batches, x, y, y_pred, loss,
                   model, valid_writer, checkpoints, trace>>

\* line 233
SchedulerStep ==
    /\ InTrain("scheduler")
    /\ lr_scheduler' = << [lr_scheduler[1] EXCEPT !.steps = @ + 1] >>
    /\ trace' = Append(trace, Event("lr_scheduler.step"))
    /\ pc' = "train_scores"
    /\ UNCHANGED <<call, error, mapperVars, self, args, lr, optimizer,
                   training_log, validation_log, epoch, step, ys, y_preds, batches,
                   x, y, y_pred, loss, model, train_writer, valid_writer, checkpoints>>

\* lines 235-246
TrainScores ==
    /\ InTrain("train_scores")
    /\ IF "score_functions" \in DOMAIN args
       THEN LET training_scores == Scores(args.score_functions, ys, y_preds)
            IN /\ training_log' = [training_log EXCEPT !.scores =
                      Append(@, [epoch |-> epoch, scores |-> training_scores])]
               /\ train_writer' = train_writer \o args.score_functions
       ELSE UNCHANGED <<training_log, train_writer>>
    /\ pc' = "eval"
    /\ UNCHANGED <<call, error, mapperVars, self, args, lr, optimizer, lr_scheduler,
                   validation_log, epoch, step, ys, y_preds, batches, x, y, y_pred,
                   loss, model, valid_writer, checkpoints, trace>>

\* the validation loop entered without switching the network to evaluation mode
EvalBeginKeepingMode ==
    /\ InTrain("eval")
    /\ \E order \in Orders(self.test_loader) :
         batches' = Batches(order, self.test_loader.batch_size)
    /\ pc' = "valid_batch"
    /\ UNCHANGED <<call, error, mapperVars, self, args, lr, optimizer, lr_scheduler,
                   training_log, validation_log, epoch, step, ys, y_preds, x, y,
                   y_pred, loss, collabVars>>

\* lines 248-251: evaluation mode, no_grad, the iterator over test_loader
EvalBegin ==
    /\ InTrain("eval")
    /\ model' = [model EXCEPT !.training = FALSE]
    /\ trace' = Append(trace, [Event("model.eval") EXCEPT !.training = FALSE])
    /\ \E order \in Orders(self.test_loader) :
         batches' = Batches(order, self.test_loader.batch_size)
    /\ pc' = "valid_batch"
    /\ UNCHANGED <<call, error, mapperVars, self, args, lr, optimizer, lr_scheduler,
                   training_log, validation_log, epoch, step, ys, y_preds, x, y,
                   y_pred, loss, train_writer, valid_writer, checkpoints>>

\* lines 251-253: the next validation batch, or the end of the validation loop
ValidBatchNext ==
    /\ InTrain("valid_batch")
    /\ IF batches # <<>>
       THEN /\ x' = Head(batches) /\ y' = BatchLabels(Head(batches))
            /\ batches' = Tail(batches)
            /\ trace' = Append(trace, Event("test_loader.next"))
            /\ pc' = "predict"
       ELSE /\ pc' = "valid_scores"
            /\ UNCHANGED <<x, y, batches, trace>>
    /\ UNCHANGED <<call, error, mapperVars, self, args, lr, optimizer, lr_scheduler,
                   training_log, validation_log, epoch, step, ys, y_preds, y_pred,
                   loss, model, train_writer, valid_writer, checkpoints>>

\* line 256
Predict ==
    /\ InTrain("predict")
    /\ y_pred' = ModelForward(x)
    /\ trace' = Append(trace, Event("model.forward"))
    /\ pc' = "valid_loss"
    /\ UNCHANGED <<call, error, mapperVars, self, args, lr, optimizer, lr_scheduler,
                   training_log, validation_log, epoch, step, ys, y_preds, batches,
                   x, y, loss, model, train_writer, valid_writer, checkpoints>>

\* line 259
ValidLoss ==
    /\ InTrain("valid_loss")
    /\ loss' = << [func |-> args.loss_func, y_pred |-> y_pred, y |-> y] >>
    /\ trace' = Append(trace, Event("loss_func"))
    /\ pc' = "valid_log"
    /\ UNCHANGED <<call, error, mapperVars, self, args, lr, optimizer, lr_scheduler,
                   training_log, validation_log, epoch, step, ys, y_preds, batches,
                   x, y, y_pred, model, train_writer, valid_writer, checkpoints>>

\* lines 261-268: validation_log.append(...), then the dashboard and the
\* accumulators (the same ys and y_preds the training loop filled)
ValidLog ==
    LET appended == DictAppend(validation_log, [epoch |-> epoch, loss |-> loss[1]])
    IN  /\ InTrain("valid_log")
        /\ IF appended = <<>>
           THEN /\ Raise("AttributeError")
                /\ UNCHANGED <<validation_log, valid_writer, ys, y_preds>>
           ELSE /\ validation_log' = appended[1]
                /\ valid_writer' = Append(valid_writer, "loss")
                /\ ys' = ys \o y
                /\ y_preds' = y_preds \o y_pred
                /\ pc' = "valid_batch" /\ error' = error
        /\ UNCHANGED <<call, mapperVars, self, args, lr, optimizer, lr_scheduler,
                       training_log, epoch, step, batches, x, y, y_pred, loss,
                       model, train_writer, checkpoints, trace>>

\* lines 270-281
ValidScores ==
    /\ InTrain("valid_scores")
    /\ IF "score_functions" \in DOMAIN args
       THEN LET validation_scores == Scores(args.score_functions, ys, y_preds)
            IN /\ validation_log' = [validation_log EXCEPT !.scores =
                      Append(@, [epoch |-> epoch, scores |-> validation_scores])]
               /\ valid_writer' = valid_writer \o args.score_functions
       ELSE UNCHANGED <<validation_log, valid_writer>>
    /\ pc' = "checkpoint"
    /\ UNCHANGED <<call, error, mapperVars, self, args, lr, optimizer, lr_scheduler,
                   training_log, epoch, step, ys, y_preds, batches, x, y, y_pred,
                   loss, model, train_writer, checkpoints, trace>>

\* lines 283-294, then the next value of range(self.epochs)
Checkpoint ==
    /\ InTrain("checkpoint")
    /\ IF "save_checkpoints" \notin DOMAIN args
       THEN /\ epoch' = epoch + 1 /\ pc' = "epoch"
            /\ UNCHANGED <<error, checkpoints, trace>>
       ELSE IF args.save_checkpoints.epoch = 0
       THEN Raise("ZeroDivisionError") /\ UNCHANGED <<epoch, checkpoints, trace>>
       ELSE IF epoch % args.save_checkpoints.epoch # 0
       THEN /\ epoch' = epoch + 1 /\ pc' = "epoch"
            /\ UNCHANGED <<error, checkpoints, trace>>
       ELSE IF loss = <<>>
       THEN Raise("UnboundLocalError") /\ UNCHANGED <<epoch, checkpoints, trace>>
       ELSE /\ checkpoints' = Append(checkpoints,
                   [epoch |-> epoch, model_state_dict |-> model.params,
                    optimizer_state_dict |-> optimizer[1], loss |-> loss[1],
                    path |-> args.save_checkpoints.path])
            /\ trace' = Append(trace, Event("torch.save"))
            /\ epoch' = epoch + 1 /\ pc' = "epoch" /\ error' = error
    /\ UNCHANGED <<call, mapperVars, self, args, lr, optimizer, lr_scheduler,
                   training_log, validation_log, step, ys, y_preds, batches,
                   x, y, y_pred, loss, model, train_writer, valid_writer>>

\* ------------------------------------------------------------- specification
Next ==
    \/ MapperNew \/ MapperLen \/ MapperGetItem
    \/ PipelineInitAttrs \/ PipelineInitDatasets
    \/ AssertNumEpochs \/ Setup \/ AssertLossFuncs
    \/ EpochBegin \/ Return
    \/ TrainBatchNext \/ Forward \/ ZeroGrad \/ LossWithGrad \/ Backward
    \/ OptimizerStep \/ LogStep
    \/ SchedulerStep \/ TrainScores
    \/ EvalBegin \/ ValidBatchNext \/ Predict \/ ValidLoss \/ ValidLog
    \/ ValidScores \/ Checkpoint

Spec == Init /\ [][Next]_vars

\* ------------------------------------------------------------- properties
Training == call = "Pipeline.train"

Ended == pc \in {"raised", "returned"}

RequiredKwargs == {"num_epochs", "loss_func", "loss_func_with_grad"}

\* the batches each loader yields per epoch
TrainBatches == Ceil(DatasetLen(self.train_loader.dataset), self.train_loader.batch_size)

ValidBatches == Ceil(DatasetLen(self.test_loader.dataset), self.test_loader.batch_size)

At(op) == { i \in 1..Len(trace) : trace[i].op = op }

GradientOps == {"optimizer.zero_grad", "loss.backward", "optimizer.step"}

\* positions of train inside an epoch, after its training loop and scheduler step
AfterTrainingPhase ==
    {"train_scores", "eval", "valid_batch", "predict", "valid_loss", "valid_log",
     "valid_scores", "checkpoint"}

ValidationPhase ==
    {"valid_batch", "predict", "valid_loss", "valid_log", "valid_scores", "checkpoint"}

\* C1: train without num_epochs, loss_func or loss_func_with_grad can only be
\* before its loop or ended by an AssertionError, and nothing of the training
\* has happened: no call on the loaders, the network, the optimizer or the
\* scheduler, no log record, no dashboard write, no checkpoint.
C1_FailsBeforeTraining ==
    (Training /\ ~(RequiredKwargs \subseteq DOMAIN args)) =>
        /\ pc \in {"assert_num_epochs", "setup", "assert_loss", "raised"}
        /\ pc = "raised" => error = "AssertionError"
        /\ trace = <<>>
        /\ model = NewModel
        /\ training_log = EmptyLog /\ validation_log = EmptyLog
        /\ train_writer = <<>> /\ valid_writer = <<>>
        /\ checkpoints = <<>>

C1_Witness ==
    /\ Training /\ pc = "raised" /\ error = "AssertionError"
    /\ "num_epochs" \in DOMAIN args
    /\ "loss_func" \in DOMAIN args
    /\ "loss_func_with_grad" \notin DOMAIN args
    /\ optimizer # <<>>

\* C2: with num_epochs, loss_func and loss_func_with_grad supplied (and a
\* checkpoint interval, when given, of at least 1), a call of train that has
\* ended has returned, with one training loss record and one validation loss
\* record per batch per epoch.  Stated for the tables that have rows.
C2_RunsToCompletion ==
    (/\ Training /\ Ended
     /\ RequiredKwargs \subseteq DOMAIN args
     /\ "save_checkpoints" \in DOMAIN args => args.save_checkpoints.epoch >= 1
     /\ DatasetLen(self.train_loader.dataset) >= 1)
    =>
        /\ pc = "returned" /\ error = ""
        /\ Len(training_log.errors) = args.num_epochs * TrainBatches
        /\ Len(validation_log.errors) = args.num_epochs * ValidBatches

\* C3: once train has ended, under a checkpoint interval k >= 1 the epochs for
\* which a checkpoint was written are exactly the multiples of k among the
\* epochs of the run, and without a checkpoint configuration none was written.
C3_CheckpointCadence ==
    (Training /\ Ended /\ RequiredKwargs \subseteq DOMAIN args) =>
        IF "save_checkpoints" \in DOMAIN args
        THEN args.save_checkpoints.epoch >= 1 =>
                \A e \in 0..(args.num_epochs - 1) :
                    (\E i \in 1..Len(checkpoints) : checkpoints[i].epoch = e)
                        <=> e % args.save_checkpoints.epoch = 0
        ELSE checkpoints = <<>>

\* C4: Pipeline(name, model, batch_size, root_dir, image_data_file,
\* preprocessor), once over, has raised nothing and holds a training and an
\* evaluation loader, each over a mapper of the same table without a teacher.
C4_ConstructorCompletes ==
    (call = "Pipeline.__init__" /\ pc \in {"raised", "constructed"}) =>
        /\ pc = "constructed" /\ error = ""
        /\ {"train_loader", "test_loader"} \subseteq DOMAIN self
        /\ self.train_loader.dataset.image_data_file = args.image_data_file
        /\ self.test_loader.dataset.image_data_file = args.image_data_file
        /\ self.train_loader.dataset.teacher_func = "None"
        /\ self.test_loader.dataset.teacher_func = "None"

\* C5: a constructed mapper keeps the fields its constructor was given; its
\* size is the number of rows of the table; and a lookup at i in [0, N) gives
\* the preprocessor's image of root_dir joined with row i's path, with the
\* teacher's label of that image when a teacher was supplied and row i's
\* label otherwise.
C5_MapperLookup ==
    (call = "DatasetMapper" /\ mapper # <<>>) =>
        LET table == args.image_data_file
            N == Len(table)
        IN  /\ mapper[1] = [root_dir |-> args.root_dir, image_data_file |-> table,
                            preprocessor |-> args.preprocessor,
                            teacher_func |-> args.teacher_func]
            /\ size # <<>> => size[1] = N
            /\ (item # <<>> /\ item[1].idx \in 0..(N - 1)) =>
                  LET row == table[item[1].idx + 1]
                      image == PreprocessorGet(
                                  IF row.path[1] = "/" THEN row.path
                                  ELSE IF args.root_dir = <<>> \/ Last(args.root_dir) = "/"
                                  THEN args.root_dir \o row.path
                                  ELSE args.root_dir \o <<"/">> \o row.path)
                  IN  /\ Len(item[1].out) = 1
                      /\ item[1].out[1].image = image
                      /\ item[1].out[1].label =
                            IF args.teacher_func = "None" THEN row.label
                            ELSE TeacherLabel(image)

C5_Witness ==
    /\ call = "DatasetMapper" /\ mapper # <<>> /\ size # <<>> /\ item # <<>>
    /\ mapper[1].teacher_func = "teacher"
    /\ mapper[1].root_dir = <<"d">>
    /\ Len(mapper[1].image_data_file) = 2
    /\ item[1].idx = 1
    /\ item[1].out = << [image |-> [pixels_of |-> <<"d", "/", "a">>], label |-> 13] >>

\* C6: the scheduler is stepped once per epoch whatever the number of training
\* batches: at most one step per epoch in the trace, each one after every
\* training-batch call of its epoch and before every validation call of it;
\* during the training loop of epoch e it has been stepped e times, and from
\* the end of that epoch's training phase on e+1 times.
C6_SchedulerOncePerEpoch ==
    (Training /\ lr_scheduler # <<>>) =>
        /\ lr_scheduler[1].steps = Cardinality(At("lr_scheduler.step"))
        /\ \A i, j \in At("lr_scheduler.step") : trace[i].epoch = trace[j].epoch => i = j
        /\ \A i \in At("lr_scheduler.step") : \A j \in 1..Len(trace) :
              trace[j].epoch = trace[i].epoch =>
                 /\ trace[j].op \in {"train_loader.next", "optimizer.step"} => j < i
                 /\ trace[j].op \in {"model.eval", "test_loader.next", "loss_func"} => j > i
        /\ pc \in {"train_batch", "forward", "zero_grad", "loss", "backward",
                   "optimizer_step", "log_step", "scheduler"}
              => lr_scheduler[1].steps = epoch
        /\ pc \in AfterTrainingPhase => lr_scheduler[1].steps = epoch + 1

C6_Witness ==
    /\ Training /\ pc = "predict"
    /\ TrainBatches >= 2
    /\ Len(training_log.errors) = TrainBatches
    /\ lr_scheduler[1].steps = 1

\* C7: in the list of per-step loss records of the training log the epoch
\* never decreases, and within one epoch the step strictly increases.
C7_LogOrdering ==
    Training =>
        \A i, j \in 1..Len(training_log.errors) : i < j =>
            LET a == training_log.errors[i]
                b == training_log.errors[j]
            IN  /\ a.epoch <= b.epoch
                /\ a.epoch = b.epoch => a.step < b.step

\* C8: every training batch is followed by forward pass, zero_grad, the
\* gradient-enabled loss, backward and one optimizer step, in this order, and
\* gradient calls happen nowhere else; between batches the optimizer has been
\* stepped once per batch read and as many loss records have been logged, so
\* that at the end of the training loop of epoch e both stand at (e+1) * B.
BatchOrder ==
    <<"model.forward", "optimizer.zero_grad", "loss_func_with_grad",
      "loss.backward", "optimizer.step">>

C8_BatchOrderAndCount ==
    (Training /\ optimizer # <<>>) =>
        /\ \A i \in At("train_loader.next") : \A k \in 1..Len(BatchOrder) :
              i + k <= Len(trace) => trace[i + k].op = BatchOrder[k]
        /\ \A k \in 2..Len(BatchOrder) : \A j \in At(BatchOrder[k]) :
              j > k /\ trace[j - k].op = "train_loader.next"
        /\ optimizer[1].steps = Cardinality(At("optimizer.step"))
        /\ model.params = optimizer[1].steps
        /\ pc \in {"train_batch", "scheduler"} =>
              /\ optimizer[1].steps = Cardinality(At("train_loader.next"))
              /\ Len(training_log.errors) = Cardinality(At("train_loader.next"))
        /\ pc = "scheduler" =>
              /\ optimizer[1].steps = (epoch + 1) * TrainBatches
              /\ Len(training_log.errors) = (epoch + 1) * TrainBatches

C8_Witness ==
    /\ Training /\ pc = "scheduler"
    /\ TrainBatches = 2
    /\ optimizer[1].steps = 2
    /\ Len(training_log.errors) = 2

\* C9: the calls of a training batch are made with the network in training
\* mode and those of a validation batch with it in evaluation mode; in an
\* epoch, nothing after the scheduler step zeroes gradients, backpropagates or
\* steps the optimizer or the scheduler; and throughout the validation phase
\* of epoch e the parameters and the optimizer stand where the training loop
\* of epoch e left them.
BatchOf(i) ==
    LET reads == { j \in 1..i : trace[j].op \in {"train_loader.next", "test_loader.next"} }
    IN IF reads = {} THEN "none"
       ELSE trace[CHOOSE j \in reads : \A k \in reads : k <= j].op

C9_ValidationReadOnly ==
    (Training /\ optimizer # <<>>) =>
        /\ \A i \in 1..Len(trace) :
              /\ BatchOf(i) = "train_loader.next" /\ trace[i].op # "model.eval"
                    /\ trace[i].op # "lr_scheduler.step" => trace[i].training
              /\ BatchOf(i) = "test_loader.next" /\ trace[i].op # "model.train"
                    => ~trace[i].training
              /\ trace[i].op \in {"test_loader.next", "loss_func"} => ~trace[i].training
              /\ trace[i].op \in {"train_loader.next", "loss_func_with_grad"}
                    => trace[i].training
        /\ \A i \in At("lr_scheduler.step") : \A j \in (i + 1)..Len(trace) :
              trace[j].epoch = trace[i].epoch =>
                 trace[j].op \notin GradientOps \cup {"lr_scheduler.step"}
        /\ pc \in ValidationPhase =>
              /\ ~model.training
              /\ model.params = (epoch + 1) * TrainBatches
              /\ optimizer[1].steps = (epoch + 1) * TrainBatches
              /\ model.grad = IF model.params = 0 THEN "none" ELSE "computed"
              /\ \A i \in 1..Len(y_pred) : pc \in {"valid_loss", "valid_log"}
                    => y_pred[i].params = model.params

C9_Witness ==
    /\ Training /\ pc = "valid_log"
    /\ ~model.training
    /\ model.params = 2
    /\ Last(trace).op = "loss_func"

\* C10: the scores logged for epoch e are computed over that epoch's batches
\* alone: the training scores over one prediction per row of the table, all
\* made in epoch e, and, once the validation of the epoch is over, the
\* validation scores over those same predictions followed by one validation
\* prediction per row.
EpochPredictions(preds, e) ==
    /\ Len(preds) = DatasetLen(self.train_loader.dataset)
    /\ { preds[i].row : i \in 1..Len(preds) } = 1..Len(preds)
    /\ \A i \in 1..Len(preds) :
          preds[i].params \in (e * TrainBatches)..((e + 1) * TrainBatches - 1)

C10_ScoresPerEpoch ==
    (Training /\ pc \in {"checkpoint", "epoch", "raised", "returned"}) =>
        \A i \in 1..Len(training_log.scores) :
            LET t == training_log.scores[i]
                N == DatasetLen(self.test_loader.dataset)
            IN  /\ t.epoch = i - 1
                /\ \A s \in 1..Len(t.scores) : EpochPredictions(t.scores[s].y_preds, t.epoch)
                /\ i <= Len(validation_log.scores)
                /\ validation_log.scores[i].epoch = t.epoch
                /\ \A s \in 1..Len(t.scores) :
                      validation_log.scores[i].scores[s].y_preds =
                          t.scores[s].y_preds \o
                          [r \in 1..N |-> [row |-> r, params |-> (t.epoch + 1) * TrainBatches]]

=============================================================================
